---------------------------- MODULE Spec2Model ----------------------------
(***************************************************************************)
(* State-machine model of js/main.js: the portfolio view controller        *)
(* (theme toggle, navigation toggle, portfolio load, tag/search filters,   *)
(* card grid and lightbox).  Text is modelled as sequences of one-character*)
(* strings so that trimming, lowercasing and substring search are computed *)
(* and not assumed.  DOM elements are modelled by name.                    *)
(***************************************************************************)
EXTENDS Integers, Sequences, FiniteSets, TLC

VARIABLES
    \* portfolioState (main.js 7-14)
    items, filteredItems, activeTag, query, currentIndex, lastFocusedElement,
    \* lightbox DOM: aria-hidden, body overflow, the item shown in the modal
    lightboxHidden, bodyOverflow, lightboxItem,
    \* portfolio DOM: grid data-state, status text, rendered cards, tag buttons
    gridState, statusText, cards, tagButtons,
    \* document.activeElement
    activeElement,
    \* position of the DOMContentLoaded handler / initPortfolio, and listeners
    loadPc, themeBound, navBound, lightboxBound, tagBound, searchBound,
    \* theme: body.dark-theme, aria-pressed, label, localStorage, OS signal
    darkTheme, ariaPressed, toggleText, storedPreference, osPrefersDark, storageMode,
    \* navigation: aria-expanded of the toggle, is-open class of the menu,
    \* window.scrollY and the is-scrolled class of the header
    ariaExpanded, navIsOpen, scrollY, isScrolled

portfolioVars == <<items, filteredItems, activeTag, query>>
lightboxVars == <<currentIndex, lastFocusedElement, lightboxHidden, bodyOverflow, lightboxItem>>
gridVars == <<gridState, statusText, cards, tagButtons>>
bindVars == <<loadPc, themeBound, navBound, lightboxBound, tagBound, searchBound>>
themeVars == <<darkTheme, ariaPressed, toggleText, storedPreference, osPrefersDark, storageMode>>
navVars == <<ariaExpanded, navIsOpen, scrollY, isScrolled>>
vars == <<portfolioVars, lightboxVars, gridVars, activeElement, bindVars, themeVars, navVars>>

----------------------------------------------------------------------------
(* Bounds *)

\* longest payload array the fetch may deliver
MaxItems == 3

\* longest description of the payloads that exercise the card text
MaxTextLen == 182

(* Program constants *)

\* window.scrollY > 40
ScrollThreshold == 40

\* truncateText(item.description, 180)
CardLimit == 180

----------------------------------------------------------------------------
(* Text helpers (String.prototype.toLowerCase / trim / includes) *)

LowerChar(c) == IF c = "A" THEN "a" ELSE IF c = "B" THEN "b" ELSE c

ToLowerCase(s) == [i \in 1..Len(s) |-> LowerChar(s[i])]

RECURSIVE TrimStart(_)
TrimStart(s) == IF s # <<>> /\ Head(s) = " " THEN TrimStart(Tail(s)) ELSE s

RECURSIVE TrimEnd(_)
TrimEnd(s) ==
    IF s # <<>> /\ s[Len(s)] = " " THEN TrimEnd(SubSeq(s, 1, Len(s) - 1)) ELSE s

Trim(s) == TrimEnd(TrimStart(s))

Includes(hay, needle) ==
    \E i \in 0..(Len(hay) - Len(needle)) : SubSeq(hay, i + 1, i + Len(needle)) = needle

----------------------------------------------------------------------------
(* The JSON payload: elements of the fetched array.  nul marks a JSON null  *)
(* element, descNull a description that is JSON null, hasTags an element    *)
(* that carries a tags array, link "" an element without link.             *)

ItemA ==
    [nul |-> FALSE, image |-> "a.png", title |-> <<"A">>, description |-> <<"b">>,
     descNull |-> FALSE, tags |-> <<"x">>, hasTags |-> TRUE, link |-> "https://a"]

ItemB ==
    [nul |-> FALSE, image |-> "b.png", title |-> <<"B">>, description |-> <<"a">>,
     descNull |-> FALSE, tags |-> <<"y", "x">>, hasTags |-> TRUE, link |-> ""]

ItemD ==
    [nul |-> FALSE, image |-> "d.png", title |-> <<"a", "b">>, description |-> <<>>,
     descNull |-> TRUE, tags |-> <<>>, hasTags |-> FALSE, link |-> ""]

ItemNull ==
    [nul |-> TRUE, image |-> "", title |-> <<>>, description |-> <<>>,
     descNull |-> FALSE, tags |-> <<>>, hasTags |-> FALSE, link |-> ""]

NoItem ==
    [nul |-> TRUE, image |-> "none", title |-> <<>>, description |-> <<>>,
     descNull |-> FALSE, tags |-> <<>>, hasTags |-> FALSE, link |-> ""]

ItemPool == {ItemA, ItemB, ItemD, ItemNull}

Payloads == UNION {[1..n -> ItemPool] : n \in 0..MaxItems}

\* what the fetch can settle with
Responses ==
    {[kind |-> k, data |-> <<>>] : k \in {"networkError", "httpError", "notArray"}}
    \cup {[kind |-> "array", data |-> d] : d \in Payloads}

\* raw values of the search box
RawInputs == {<<>>, <<" ", "B", " ">>, <<"a", "b">>, <<"a", " ", "b">>}

Keys == {"Escape", "ArrowRight", "ArrowLeft", "Enter"}

LightboxControls == {"closeButton", "prevButton", "nextButton"}

----------------------------------------------------------------------------
(* Status messages *)

Status(m, x, y) == [msg |-> m, x |-> x, y |-> y]
MsgNone == Status("", 0, 0)
MsgLoading == Status("Loading portfolio items", 0, 0)
MsgFailed == Status("Failed to load projects", 0, 0)
MsgUnavailable == Status("Portfolio data not available", 0, 0)
MsgNoMatch == Status("No projects matched your filters", 0, 0)
MsgShowing(x, y) == Status("Showing", x, y)

----------------------------------------------------------------------------
(* Initial markup (index.html): the lightbox starts hidden, the menu       *)
(* closed, the toggle unpressed.                                           *)

MarkupLightboxHidden == "true"
MarkupAriaExpanded == "false"
MarkupNavIsOpen == FALSE
MarkupAriaPressed == "false"
MarkupToggleText == "Light"

InitWith(modes, prefs, os) ==
    /\ items = <<>>
    /\ filteredItems = <<>>
    /\ activeTag = "all"
    /\ query = <<>>
    /\ currentIndex = 0
    /\ lastFocusedElement = "null"
    /\ lightboxHidden = MarkupLightboxHidden
    /\ bodyOverflow = ""
    /\ lightboxItem = NoItem
    /\ gridState = ""
    /\ statusText = MsgNone
    /\ cards = <<>>
    /\ tagButtons = {}
    /\ activeElement = "body"
    /\ loadPc = "start"
    /\ themeBound = FALSE
    /\ navBound = FALSE
    /\ lightboxBound = FALSE
    /\ tagBound = FALSE
    /\ searchBound = FALSE
    /\ darkTheme = FALSE
    /\ ariaPressed = MarkupAriaPressed
    /\ toggleText = MarkupToggleText
    /\ storedPreference \in prefs
    /\ osPrefersDark \in os
    /\ storageMode \in modes
    /\ ariaExpanded = MarkupAriaExpanded
    /\ navIsOpen = MarkupNavIsOpen
    /\ scrollY = 0
    /\ isScrolled = FALSE

Init == InitWith({"ok"}, {"none"}, {FALSE})

----------------------------------------------------------------------------
(* Filter/search engine (pure parts) *)

\* item.tags || []
TagsOf(item) == IF item.hasTags THEN item.tags ELSE <<>>

TagSet(item) == {TagsOf(item)[i] : i \in 1..Len(TagsOf(item))}

\* mutant: the search target is not lowercased
SearchTargetNoLower(item) ==
    item.title \o <<" ">> \o (IF item.descNull THEN <<>> ELSE item.description)

\* `${item.title ?? ''} ${item.description ?? ''}`.toLowerCase()
SearchTarget(item) ==
    ToLowerCase(item.title \o <<" ">>
                \o (IF item.descNull THEN <<>> ELSE item.description))

MatchesTag(item, tag) == tag = "all" \/ tag \in TagSet(item)

MatchesQuery(item, q) == q = <<>> \/ Includes(SearchTarget(item), q)

\* the callback of portfolioState.items.filter
MatchesItem(item, tag, q) == MatchesTag(item, tag) /\ MatchesQuery(item, q)

FilterItems(list, tag, q) ==
    LET Keep(item) == MatchesItem(item, tag, q) IN SelectSeq(list, Keep)

\* value.trim().toLowerCase()
NormalizeQuery(raw) == ToLowerCase(Trim(raw))

\* [...new Set(items.flatMap((item) => item.tags || []))]; the buttons are
\* kept as a set, their sorted order is not modelled
UniqueTags(list) == UNION {TagSet(list[i]) : i \in 1..Len(list)}

\* items.flatMap((item) => item.tags ...) throws on a null element
BuildTagFiltersThrows(list) == \E i \in 1..Len(list) : list[i].nul

----------------------------------------------------------------------------
(* Gallery renderer (pure parts) *)

\* createPortfolioCard throws a TypeError on a null element (item.image) and
\* on a null description (text.length in truncateText)
CardThrows(item) == item.nul \/ item.descNull

\* the character U+2026 that truncateText appends
Ellipsis == "ellipsis"

\* mutant: the slice keeps maxLength characters before the ellipsis
truncateTextFullSlice(text, maxLength) ==
    IF Len(text) <= maxLength THEN text
    ELSE SubSeq(text, 1, maxLength) \o <<Ellipsis>>

\* truncateText(text, maxLength)
truncateText(text, maxLength) ==
    IF Len(text) <= maxLength THEN text
    ELSE SubSeq(text, 1, maxLength - 1) \o <<Ellipsis>>

\* mutant: the button passes a 1-based position
createPortfolioCardOneBased(item, index) ==
    [item |-> item, index |-> index + 1,
     text |-> truncateText(item.description, CardLimit)]

\* the card: its description text and the index its "View details" button
\* passes to openLightbox
createPortfolioCard(item, index) ==
    [item |-> item, index |-> index,
     text |-> truncateText(item.description, CardLimit)]

\* number of cards appended before forEach stops: all, or those before the
\* first element on which createPortfolioCard throws
CardsBuilt(list) ==
    IF \E i \in 1..Len(list) : CardThrows(list[i])
    THEN (CHOOSE i \in 1..Len(list) :
              CardThrows(list[i]) /\ \A j \in 1..(i - 1) : ~CardThrows(list[j])) - 1
    ELSE Len(list)

\* renderPortfolio(list) against portfolioState.items = all: the grid state,
\* the status text, the cards in the grid when it returns or throws
RenderPortfolio(list, all) ==
    [state |-> IF Len(list) > 0 THEN "ready" ELSE "empty",
     status |-> IF Len(all) = 0 THEN MsgUnavailable
                ELSE IF Len(list) = 0 THEN MsgNoMatch
                ELSE MsgShowing(Len(list), Len(all)),
     cards |-> IF Len(all) = 0 \/ Len(list) = 0 THEN <<>>
               ELSE [i \in 1..CardsBuilt(list) |-> createPortfolioCard(list[i], i - 1)],
     threw |-> Len(all) # 0 /\ \E i \in 1..Len(list) : CardThrows(list[i])]

\* grid.innerHTML = '' removes the cards: a focused card loses the focus to
\* the body, a remembered card becomes a detached element
FocusAfterRender(e) == IF e = "card" THEN "body" ELSE e
RefAfterRender(e) == IF e = "card" THEN "detachedCard" ELSE e

----------------------------------------------------------------------------
(* Lightbox navigator *)

\* openLightbox(index); the caller states what happens to the other variables
openLightbox(index) ==
    IF Len(filteredItems) = 0
    THEN UNCHANGED <<lightboxVars, activeElement>>
    ELSE /\ currentIndex' = index
         /\ IF index < 0 \/ index >= Len(filteredItems) \/ filteredItems[index + 1].nul
            THEN UNCHANGED <<lastFocusedElement, lightboxHidden, bodyOverflow,
                             lightboxItem, activeElement>>
            ELSE /\ lightboxItem' = filteredItems[index + 1]
                 /\ lastFocusedElement' = activeElement
                 /\ bodyOverflow' = "hidden"
                 /\ lightboxHidden' = "false"
                 /\ activeElement' = "closeButton"

\* closeLightbox(); focus() does nothing on a missing or detached element
\* and on the body, which is not focusable
closeLightbox ==
    /\ lightboxHidden' = "true"
    /\ bodyOverflow' = ""
    /\ activeElement' = IF lastFocusedElement \in {"null", "detachedCard", "body"}
                        THEN activeElement
                        ELSE lastFocusedElement
    /\ UNCHANGED <<currentIndex, lastFocusedElement, lightboxItem>>

\* mutant: only the neighbours of the valid range are wrapped
NextIndexExactWrap(direction) ==
    IF currentIndex + direction = -1 THEN Len(filteredItems) - 1
    ELSE IF currentIndex + direction = Len(filteredItems) THEN 0
    ELSE currentIndex + direction

\* the index stepLightbox passes to openLightbox
NextIndex(direction) ==
    IF currentIndex + direction < 0 THEN Len(filteredItems) - 1
    ELSE IF currentIndex + direction >= Len(filteredItems) THEN 0
    ELSE currentIndex + direction

stepLightbox(direction) ==
    IF Len(filteredItems) = 0
    THEN UNCHANGED <<lightboxVars, activeElement>>
    ELSE openLightbox(NextIndex(direction))

----------------------------------------------------------------------------
(* Page start and portfolio load *)

\* mutant: the OS signal is consulted whatever is stored
PrefersDarkOsFirst == storedPreference = "dark" \/ osPrefersDark

\* the initial theme of initThemeToggle
PrefersDark == storedPreference = "dark" \/ (storedPreference = "none" /\ osPrefersDark)

\* String(isDark) and the label of updateThemeToggleLabel
PressedOf(isDark) == IF isDark THEN "true" ELSE "false"
LabelOf(isDark) == IF isDark THEN "Dark" ELSE "Light"

\* the DOMContentLoaded handler up to the await in initPortfolio; with the
\* storage unavailable localStorage.getItem throws and the handler ends there
DOMContentLoaded ==
    /\ loadPc = "start"
    /\ IF storageMode = "unavailable"
       THEN /\ loadPc' = "aborted"
            /\ UNCHANGED <<themeBound, navBound, lightboxBound, tagBound, searchBound,
                           darkTheme, ariaPressed, toggleText, gridState, statusText,
                           isScrolled>>
       ELSE /\ darkTheme' = PrefersDark
            /\ ariaPressed' = PressedOf(PrefersDark)
            /\ toggleText' = LabelOf(PrefersDark)
            /\ themeBound' = TRUE
            /\ navBound' = TRUE
            /\ isScrolled' = (scrollY > ScrollThreshold)
            /\ lightboxBound' = TRUE
            /\ gridState' = "loading"
            /\ statusText' = MsgLoading
            /\ loadPc' = "fetching"
            /\ UNCHANGED <<tagBound, searchBound>>
    /\ UNCHANGED <<portfolioVars, lightboxVars, cards, tagButtons, activeElement,
                   storedPreference, osPrefersDark, storageMode, ariaExpanded,
                   navIsOpen, scrollY>>

\* the catch block of initPortfolio
LoadFailed ==
    /\ gridState' = "error"
    /\ statusText' = MsgFailed
    /\ loadPc' = "failed"

\* the continuation of initPortfolio once the fetch has settled
FetchSettles(response) ==
    /\ loadPc = "fetching"
    /\ IF response.kind # "array"
       THEN /\ LoadFailed
            /\ UNCHANGED <<portfolioVars, cards, tagButtons, tagBound, searchBound,
                           activeElement, lastFocusedElement>>
       ELSE /\ items' = response.data
            /\ filteredItems' = response.data
            /\ activeTag' = "all"
            /\ query' = <<>>
            /\ IF BuildTagFiltersThrows(response.data)
               THEN /\ LoadFailed
                    /\ UNCHANGED <<cards, tagButtons, tagBound, searchBound,
                                   activeElement, lastFocusedElement>>
               ELSE LET r == RenderPortfolio(response.data, response.data) IN
                    /\ tagButtons' = UniqueTags(response.data)
                    /\ tagBound' = TRUE
                    /\ searchBound' = TRUE
                    /\ cards' = r.cards
                    /\ activeElement' = FocusAfterRender(activeElement)
                    /\ lastFocusedElement' = RefAfterRender(lastFocusedElement)
                    /\ IF r.threw
                       THEN LoadFailed
                       ELSE /\ gridState' = r.state
                            /\ statusText' = r.status
                            /\ loadPc' = "loaded"
    /\ UNCHANGED <<currentIndex, lightboxHidden, bodyOverflow, lightboxItem,
                   themeBound, navBound, lightboxBound, themeVars, navVars>>

----------------------------------------------------------------------------
(* Filter and search events *)

\* applyPortfolioFilters() with the tag and query the handler has just set;
\* an exception of renderPortfolio leaves the grid as it was when thrown
applyPortfolioFilters(tag, q) ==
    LET filtered == FilterItems(items, tag, q)
        r == RenderPortfolio(filtered, items)
    IN  /\ filteredItems' = filtered
        /\ gridState' = r.state
        /\ statusText' = r.status
        /\ cards' = r.cards
        /\ activeElement' = FocusAfterRender(activeElement)
        /\ lastFocusedElement' = RefAfterRender(lastFocusedElement)

\* mutant: the handler does not return on the tag that is already active
TagClickNoSameTagReturn(tag) ==
    /\ tagBound
    /\ tag \in tagButtons \cup {"all"}
    /\ activeTag' = tag
    /\ applyPortfolioFilters(tag, query)
    /\ UNCHANGED <<items, query, currentIndex, lightboxHidden, bodyOverflow,
                   lightboxItem, tagButtons, bindVars, themeVars, navVars>>

\* mutant: the handler sets activeTag and does not call applyPortfolioFilters
TagClickNoApply(tag) ==
    /\ tagBound
    /\ tag \in tagButtons \cup {"all"}
    /\ activeTag' = tag
    /\ UNCHANGED <<items, filteredItems, query, lightboxVars, gridVars, activeElement,
                   bindVars, themeVars, navVars>>

\* click on a .tag-filter button (the permanent "all" or a generated one)
TagClick(tag) ==
    /\ tagBound
    /\ tag \in tagButtons \cup {"all"}
    /\ IF tag = activeTag
       THEN UNCHANGED vars
       ELSE /\ activeTag' = tag
            /\ applyPortfolioFilters(tag, query)
            /\ UNCHANGED <<items, query, currentIndex, lightboxHidden, bodyOverflow,
                           lightboxItem, tagButtons, bindVars, themeVars, navVars>>

\* input event of the search box, which holds the focus
SearchInput(raw) ==
    /\ searchBound
    /\ activeElement = "search"
    /\ query' = NormalizeQuery(raw)
    /\ applyPortfolioFilters(activeTag, NormalizeQuery(raw))
    /\ UNCHANGED <<items, activeTag, currentIndex, lightboxHidden, bodyOverflow,
                   lightboxItem, tagButtons, bindVars, themeVars, navVars>>

----------------------------------------------------------------------------
(* Lightbox events *)

others == <<portfolioVars, gridVars, bindVars, themeVars, navVars>>

\* click on the "View details" button of the card at position i
CardClick(i) ==
    /\ i \in 1..Len(cards)
    /\ openLightbox(cards[i].index)
    /\ UNCHANGED others

\* click on the close button or on the backdrop of the visible lightbox
CloseClick ==
    /\ lightboxBound
    /\ lightboxHidden = "false"
    /\ closeLightbox
    /\ UNCHANGED others

\* click on the previous (-1) or next (+1) button of the visible lightbox
StepClick(direction) ==
    /\ lightboxBound
    /\ lightboxHidden = "false"
    /\ stepLightbox(direction)
    /\ UNCHANGED others

\* mutant: the listener does not look at aria-hidden
KeyDownNoGuard(key) ==
    /\ lightboxBound
    /\ IF key = "Escape" THEN closeLightbox
       ELSE IF key = "ArrowRight" THEN stepLightbox(1)
       ELSE IF key = "ArrowLeft" THEN stepLightbox(-1)
       ELSE UNCHANGED <<lightboxVars, activeElement>>
    /\ UNCHANGED others

\* the keydown listener of the document
KeyDown(key) ==
    /\ lightboxBound
    /\ IF lightboxHidden = "true" THEN UNCHANGED <<lightboxVars, activeElement>>
       ELSE IF key = "Escape" THEN closeLightbox
       ELSE IF key = "ArrowRight" THEN stepLightbox(1)
       ELSE IF key = "ArrowLeft" THEN stepLightbox(-1)
       ELSE UNCHANGED <<lightboxVars, activeElement>>
    /\ UNCHANGED others

\* the elements the user can move the focus to
Focusable ==
    {"body", "search"}
    \cup (IF cards # <<>> THEN {"card"} ELSE {})
    \cup (IF lightboxHidden = "false" THEN LightboxControls ELSE {})

\* the user moves the focus (Tab, or a click that focuses its target)
UserFocus(e) ==
    /\ loadPc # "start"
    /\ e \in Focusable
    /\ activeElement' = e
    /\ UNCHANGED <<lightboxVars, others>>

----------------------------------------------------------------------------
(* Specification of the portfolio and the lightbox under user events *)

Next ==
    \/ DOMContentLoaded
    \/ \E response \in Responses : FetchSettles(response)
    \/ \E tag \in {"all", "x", "y"} : TagClick(tag)
    \/ \E raw \in RawInputs : SearchInput(raw)
    \/ \E direction \in {-1, 1} : StepClick(direction)
    \/ \E key \in Keys : KeyDown(key)
    \/ CloseClick
    \/ \E i \in 1..MaxItems : CardClick(i)
    \/ \E e \in {"body", "search", "card"} \cup LightboxControls : UserFocus(e)

Spec == Init /\ [][Next]_vars

----------------------------------------------------------------------------
(* Direct calls of the global function openLightbox with any index *)

IndexArgs == -1..MaxItems

OpenLightboxCall(index) ==
    /\ loadPc # "start"
    /\ openLightbox(index)
    /\ UNCHANGED others

NextCalls ==
    \/ Next
    \/ \E index \in IndexArgs : OpenLightboxCall(index)

SpecCalls == Init /\ [][NextCalls]_vars

\* the lightbox under steps, direct openLightbox calls and tag clicks, with
\* the focus left where the lightbox puts it
NextSteps ==
    \/ DOMContentLoaded
    \/ \E response \in Responses : FetchSettles(response)
    \/ \E tag \in {"all", "x", "y"} : TagClick(tag)
    \/ \E direction \in {-1, 1} : StepClick(direction)
    \/ \E key \in Keys : KeyDown(key)
    \/ CloseClick
    \/ \E index \in IndexArgs : OpenLightboxCall(index)

SpecSteps == Init /\ [][NextSteps]_vars

----------------------------------------------------------------------------
(* Theme toggle and navigation *)

\* click on .theme-toggle: the class is flipped, then localStorage.setItem
\* runs, and only if it returns is the label updated
ThemeToggleClick ==
    /\ themeBound
    /\ darkTheme' = ~darkTheme
    /\ IF storageMode = "ok"
       THEN /\ storedPreference' = (IF ~darkTheme THEN "dark" ELSE "light")
            /\ ariaPressed' = PressedOf(~darkTheme)
            /\ toggleText' = LabelOf(~darkTheme)
       ELSE UNCHANGED <<storedPreference, ariaPressed, toggleText>>
    /\ UNCHANGED <<portfolioVars, lightboxVars, gridVars, activeElement, bindVars,
                   osPrefersDark, storageMode, navVars>>

\* click on .nav-toggle
NavToggleClick ==
    /\ navBound
    /\ ariaExpanded' = (IF ariaExpanded = "true" THEN "false" ELSE "true")
    /\ navIsOpen' = ~navIsOpen
    /\ UNCHANGED <<portfolioVars, lightboxVars, gridVars, activeElement, bindVars,
                   themeVars, scrollY, isScrolled>>

\* click on a link inside #primary-navigation
NavLinkClick ==
    /\ navBound
    /\ navIsOpen' = FALSE
    /\ ariaExpanded' = "false"
    /\ UNCHANGED <<portfolioVars, lightboxVars, gridVars, activeElement, bindVars,
                   themeVars, scrollY, isScrolled>>

\* scroll event of the window, at one of the offsets around the threshold
Scroll(y) ==
    /\ navBound
    /\ scrollY' = y
    /\ isScrolled' = (y > ScrollThreshold)
    /\ UNCHANGED <<portfolioVars, lightboxVars, gridVars, activeElement, bindVars,
                   themeVars, ariaExpanded, navIsOpen>>

\* the page is loaded again: everything but the stored preference, the OS
\* signal and the state of the storage starts over
Reload ==
    /\ loadPc # "start"
    /\ items' = <<>>
    /\ filteredItems' = <<>>
    /\ activeTag' = "all"
    /\ query' = <<>>
    /\ currentIndex' = 0
    /\ lastFocusedElement' = "null"
    /\ lightboxHidden' = MarkupLightboxHidden
    /\ bodyOverflow' = ""
    /\ lightboxItem' = NoItem
    /\ gridState' = ""
    /\ statusText' = MsgNone
    /\ cards' = <<>>
    /\ tagButtons' = {}
    /\ activeElement' = "body"
    /\ loadPc' = "start"
    /\ themeBound' = FALSE
    /\ navBound' = FALSE
    /\ lightboxBound' = FALSE
    /\ tagBound' = FALSE
    /\ searchBound' = FALSE
    /\ darkTheme' = FALSE
    /\ ariaPressed' = MarkupAriaPressed
    /\ toggleText' = MarkupToggleText
    /\ ariaExpanded' = MarkupAriaExpanded
    /\ navIsOpen' = MarkupNavIsOpen
    /\ isScrolled' = FALSE
    /\ UNCHANGED <<storedPreference, osPrefersDark, storageMode, scrollY>>

InitUI == InitWith({"ok", "setThrows", "unavailable"}, {"none", "dark", "light"}, BOOLEAN)

NextUI ==
    \/ DOMContentLoaded
    \/ ThemeToggleClick
    \/ NavToggleClick
    \/ NavLinkClick
    \/ \E y \in {0, ScrollThreshold, ScrollThreshold + 1} : Scroll(y)
    \/ Reload
    \/ \E kind \in {"httpError", "notArray"} : FetchSettles([kind |-> kind, data |-> <<>>])

SpecUI == InitUI /\ [][NextUI]_vars

----------------------------------------------------------------------------
(* Cards of items whose description has any length up to MaxTextLen *)

LongItem(n) ==
    [nul |-> FALSE, image |-> "long.png", title |-> <<"A">>,
     description |-> [i \in 1..n |-> IF i % 2 = 1 THEN "a" ELSE "b"],
     descNull |-> FALSE, tags |-> <<"x">>, hasTags |-> TRUE, link |-> ""]

NextCards ==
    \/ DOMContentLoaded
    \/ \E n \in 0..MaxTextLen : FetchSettles([kind |-> "array", data |-> <<LongItem(n)>>])
    \/ CardClick(1)
    \/ CloseClick

SpecCards == Init /\ [][NextCards]_vars

----------------------------------------------------------------------------
(* Properties *)

Visible == lightboxHidden = "false"

\* a step of stepLightbox(direction) while the lightbox is visible
StepTaken(direction) == Visible /\ stepLightbox(direction) /\ UNCHANGED others

\* C1: whenever the lightbox is visible, 0 <= currentIndex < Len(filteredItems)
C1_IndexInRangeWhileVisible ==
    Visible => (0 <= currentIndex /\ currentIndex < Len(filteredItems))

\* C2: openLightbox(index) with an index out of range on a non-empty
\* filteredItems leaves the open/closed state and currentIndex unchanged
C2_OutOfRangeOpenIsNoOp ==
    [][\A index \in IndexArgs :
          (/\ Len(filteredItems) > 0
           /\ (index < 0 \/ index >= Len(filteredItems))
           /\ OpenLightboxCall(index))
          => (lightboxHidden' = lightboxHidden /\ currentIndex' = currentIndex)]_vars

\* C3: stepping the open lightbox keeps lastFocusedElement, the element that
\* had the focus before the lightbox opened, so that closeLightbox returns
\* the focus to it
C3_StepKeepsOpener ==
    [][\A direction \in {-1, 1} :
          StepTaken(direction) => lastFocusedElement' = lastFocusedElement]_vars

\* positions of items that match the current (activeTag, query)
MatchingPositions == {i \in 1..Len(items) : MatchesItem(items[i], activeTag, query)}

\* the k-th smallest element of a set of positions
KthOf(positions, k) ==
    CHOOSE i \in positions : Cardinality({j \in positions : j <= i}) = k

\* C4: in every reachable state filteredItems is the order-preserving
\* subsequence of items at exactly the positions that match the current
\* (activeTag, query)
C4_FilteredIsCurrent ==
    /\ Len(filteredItems) = Cardinality(MatchingPositions)
    /\ \A k \in 1..Len(filteredItems) :
          filteredItems[k] = items[KthOf(MatchingPositions, k)]

C4_Witness ==
    /\ loadPc = "loaded"
    /\ activeTag # "all"
    /\ query # <<>>
    /\ 0 < Len(filteredItems)
    /\ Len(filteredItems) < Len(items)

\* the description as the template literal prints it (null prints as '')
DescriptionText(item) == IF item.descNull THEN <<>> ELSE item.description

\* s occurs in t at offset k
OccursAt(s, t, k) ==
    /\ k + Len(s) <= Len(t)
    /\ \A j \in 1..Len(s) : t[k + j] = s[j]

Occurs(s, t) == \E k \in 0..Len(t) : OccursAt(s, t, k)

\* the predicate as the claim words it: title and description concatenated
ClaimKeeps(item) ==
    /\ activeTag = "all" \/ \E i \in 1..Len(TagsOf(item)) : TagsOf(item)[i] = activeTag
    /\ query = <<>> \/ Occurs(query, ToLowerCase(item.title \o DescriptionText(item)))

\* the predicate with the space the code puts between title and description
AmendedKeeps(item) ==
    /\ activeTag = "all" \/ \E i \in 1..Len(TagsOf(item)) : TagsOf(item)[i] = activeTag
    /\ query = <<>>
       \/ Occurs(query, ToLowerCase(item.title \o <<" ">> \o DescriptionText(item)))

\* C5 as claimed: an item is kept iff the tag matches and the lowercased
\* concatenation of title and description contains the query
C5_KeepsIffConcatenationContains == filteredItems = SelectSeq(items, ClaimKeeps)

\* C5 amended: an item is kept iff the tag matches and the lowercased string
\* "title, one space, description" contains the query; in the order of items
C5_KeepsIffSpacedTargetContains == filteredItems = SelectSeq(items, AmendedKeeps)

C5_Witness ==
    /\ query = <<"a", " ", "b">>
    /\ \E i \in 1..Len(filteredItems) : filteredItems[i] = ItemA
    /\ Len(filteredItems) < Len(items)

\* C6: with the lightbox open on a non-empty filteredItems a step from the
\* last index forward gives 0, from 0 backward gives the last index, any
\* other step moves currentIndex by the direction
C6_StepWraps ==
    [][\A direction \in {-1, 1} :
          (StepTaken(direction) /\ Len(filteredItems) >= 1)
          => currentIndex' =
                IF direction = 1 /\ currentIndex = Len(filteredItems) - 1 THEN 0
                ELSE IF direction = -1 /\ currentIndex = 0 THEN Len(filteredItems) - 1
                ELSE currentIndex + direction]_vars

\* C7: whenever the grid state is "error", the status shows the failure
\* message, no card is rendered and items and filteredItems are empty
C7_ErrorHoldsNoData ==
    gridState = "error"
    => (statusText = MsgFailed /\ cards = <<>> /\ items = <<>> /\ filteredItems = <<>>)

\* C8: after a successful load the presentation is chosen by content: the
\* unavailable message, or the no-match message with no card, or the count
\* message with one card per filtered item in order, card i opening index i
C8_PresentationByContent ==
    loadPc = "loaded"
    => IF items = <<>> THEN statusText = MsgUnavailable /\ cards = <<>>
       ELSE IF filteredItems = <<>> THEN statusText = MsgNoMatch /\ cards = <<>>
       ELSE /\ statusText = MsgShowing(Len(filteredItems), Len(items))
            /\ Len(cards) = Len(filteredItems)
            /\ \A i \in 1..Len(cards) :
                  cards[i].item = filteredItems[i] /\ cards[i].index = i - 1

C8_Witness ==
    /\ loadPc = "loaded"
    /\ statusText = MsgShowing(2, 3)
    /\ Len(cards) = 2
    /\ activeTag = "x"

\* C9: while the lightbox is closed an Escape, ArrowLeft or ArrowRight key
\* event changes none of currentIndex, the open/closed state,
\* lastFocusedElement, the scroll suppression and the focus
C9_KeysIgnoredWhileClosed ==
    [][\A key \in {"Escape", "ArrowLeft", "ArrowRight"} :
          (lightboxHidden = "true" /\ KeyDown(key))
          => UNCHANGED <<currentIndex, lightboxHidden, lastFocusedElement,
                         bodyOverflow, activeElement>>]_vars

\* closed after having been open, on a non-empty list, the focus elsewhere
\* than on the remembered element: each of the three keys would act
C9_Witness ==
    /\ lightboxBound
    /\ lightboxHidden = "true"
    /\ filteredItems # <<>>
    /\ lastFocusedElement = "search"
    /\ activeElement = "card"

\* C10: each toggle's accessibility attribute agrees with its visual state
C10_TogglesInSync ==
    /\ themeBound
       => /\ (ariaPressed = "true") <=> darkTheme
          /\ (toggleText = "Dark") <=> darkTheme
    /\ navBound => ((ariaExpanded = "true") <=> navIsOpen)

\* C11: with a storage that fails the page is still initialized (theme
\* toggle, navigation, lightbox controls, portfolio load) and every toggle
\* click leaves aria-pressed and the label as a successful toggle does
C11_StorageFailureNotFatal ==
    (storageMode # "ok" /\ loadPc # "start")
    => /\ loadPc # "aborted"
       /\ themeBound /\ navBound /\ lightboxBound
       /\ ariaPressed = PressedOf(darkTheme)
       /\ toggleText = LabelOf(darkTheme)

\* the theme the resolution order gives: a stored 'dark' or 'light' decides,
\* with nothing stored the OS signal decides
ResolvedDark(stored, os) ==
    IF stored = "dark" THEN TRUE ELSE IF stored = "light" THEN FALSE ELSE os

\* C12: initialization shows the theme the resolution order gives, and with
\* a working storage and a stored choice a reload leaves a page whose
\* initialization resolves to the theme displayed before the reload
C12_ThemeSurvivesReload ==
    [][/\ (DOMContentLoaded /\ storageMode # "unavailable")
          => darkTheme' = ResolvedDark(storedPreference, osPrefersDark)
       /\ (ThemeToggleClick /\ storageMode = "ok")
          => ResolvedDark(storedPreference', osPrefersDark') = darkTheme'
       /\ (Reload /\ themeBound /\ storageMode = "ok" /\ storedPreference # "none")
          => ResolvedDark(storedPreference', osPrefersDark') = darkTheme]_vars

\* toggled to light under an OS that prefers dark, storage working
C12_Witness ==
    /\ themeBound
    /\ storageMode = "ok"
    /\ storedPreference = "light"
    /\ osPrefersDark
    /\ ~darkTheme
    /\ ariaPressed = "false"

\* the tags the filter buttons are derived from
DerivedTags ==
    {t \in {"x", "y"} :
        \E i \in 1..Len(items) : \E j \in 1..Len(TagsOf(items[i])) : TagsOf(items[i])[j] = t}

\* the items that match a tag and the current query, in the order of items
KeptUnderTag(tag) ==
    LET Keeps(item) ==
            /\ tag = "all" \/ \E i \in 1..Len(TagsOf(item)) : TagsOf(item)[i] = tag
            /\ query = <<>>
               \/ Occurs(query, ToLowerCase(item.title \o <<" ">> \o DescriptionText(item)))
    IN  SelectSeq(items, Keeps)

\* C13: a click on the button of another tag sets activeTag to it, keeps
\* items and query, and leaves filteredItems and the grid recomputed for it;
\* a click on the button of the active tag changes nothing; activeTag is
\* always "all" or a tag derived from the loaded items (it is "all" at the
\* start, and stays such a tag over every step that writes it or items)
C13_TagClickFrame ==
    [][/\ (activeTag' # activeTag \/ items' # items)
          => activeTag' \in {"all"} \cup DerivedTags'
       /\ \A tag \in {"all", "x", "y"} :
             TagClick(tag)
             => IF tag = activeTag
                THEN UNCHANGED <<activeTag, filteredItems, cards, gridState, statusText,
                                 currentIndex, activeElement, lastFocusedElement>>
                ELSE /\ activeTag' = tag
                     /\ items' = items
                     /\ query' = query
                     /\ filteredItems' = KeptUnderTag(tag)
                     /\ gridState' = (IF filteredItems' = <<>> THEN "empty" ELSE "ready")
                     /\ Len(cards') <= Len(filteredItems')
                     /\ \A i \in 1..Len(cards') : cards'[i].item = filteredItems'[i]]_vars

\* the active tag "x" is shown with a focused card: a click on "x" that
\* rendered again would take the focus from the card
C13_Witness ==
    /\ tagBound
    /\ activeTag = "x"
    /\ activeElement = "card"
    /\ Len(filteredItems) < Len(items)

\* C14: the text of every card is the description itself when that has at
\* most 180 characters, and otherwise has at most 180 characters: a prefix
\* of the description followed by one ellipsis
C14_CardTextBounded ==
    \A i \in 1..Len(cards) :
        LET d == cards[i].item.description
            t == cards[i].text
        IN  IF Len(d) <= 180 THEN t = d
            ELSE /\ Len(t) <= 180
                 /\ Len(t) >= 1
                 /\ t[Len(t)] = Ellipsis
                 /\ \A j \in 1..(Len(t) - 1) : t[j] = d[j]

\* a card whose description was cut
C14_Witness ==
    /\ Len(cards) = 1
    /\ Len(cards[1].item.description) = 181
    /\ Len(cards[1].text) = 180
    /\ cards[1].text[180] = Ellipsis

\* C15: the grid state is "loading" from the start of initPortfolio until
\* the fetch settles, then one of "ready", "empty", "error", never "loading"
\* again, and after a failed load it stays "error" under every later event
C15_LoadRunsOnce ==
    [][/\ (loadPc = "fetching") => gridState = "loading"
       /\ (loadPc = "fetching" /\ loadPc' # "fetching")
          => gridState' \in {"ready", "empty", "error"}
       /\ (loadPc \in {"loaded", "failed"}) => gridState' # "loading"
       /\ (loadPc = "failed") => gridState' = "error"]_vars

\* C16: items is written at most once, by a successful load, and before the
\* load has succeeded no other step changes items, filteredItems, activeTag
\* or query
C16_ItemsSetOnceByLoad ==
    [][/\ (items' # items) => (items = <<>> /\ loadPc = "fetching" /\ loadPc' = "loaded")
       /\ (loadPc # "loaded" /\ loadPc' # "loaded") => UNCHANGED portfolioVars]_vars

\* C17: whenever the lightbox is visible, the item it displays is
\* filteredItems[currentIndex] of the current filteredItems
C17_LightboxShowsCurrent ==
    Visible
    => /\ 0 <= currentIndex
       /\ currentIndex < Len(filteredItems)
       /\ lightboxItem = filteredItems[currentIndex + 1]

\* C18: on a non-empty filteredItems a step of the lightbox from any
\* currentIndex, in range or not, leaves the lightbox open with
\* 0 <= currentIndex < Len(filteredItems)
C18_StepLandsInRange ==
    [][\A direction \in {-1, 1} :
          (StepTaken(direction) /\ Len(filteredItems) >= 1)
          => /\ lightboxHidden' = "false"
             /\ 0 <= currentIndex'
             /\ currentIndex' < Len(filteredItems')]_vars

\* the lightbox is open with currentIndex left beyond the list
C18_Witness ==
    /\ Visible
    /\ Len(filteredItems) >= 1
    /\ currentIndex > Len(filteredItems)

=============================================================================
